---- MODULE Spec2Model ----
(***************************************************************************)
(* Model of the ETL transformer of etl_inseguridad (transform.py): the     *)
(* three source tables are cleaned, the geography and indicator tables     *)
(* are built with synthetic ids, and the fact table is emitted and         *)
(* deduplicated on its natural key.  The orchestrator (main.py), the       *)
(* extractor (extract.py) and the SQLite loader (load.py) run around it.   *)
(*                                                                         *)
(* Tables are sequences of records in DataFrame row order.  Column 'año'   *)
(* is written anio.  The municipal column dato_departamento is never read  *)
(* by the transformer and is left out of the municipal rows.               *)
(***************************************************************************)
EXTENDS Integers, Sequences, FiniteSets, TLC

VARIABLES pc, run,
          df_regional, df_departamental, df_municipal,
          df_regional_clean, df_departamental_clean, df_municipal_clean,
          curated, df_geografia, df_indicadores,
          datos_nacionales, medicion_records, df_medicion, processed,
          prev,
          files,      \* the three Excel files of the input directory
          env,        \* how the run was started, what it finds, what fails
          clock,      \* wall clock in whole seconds
          timestamp,  \* datetime.now().strftime("%Y%m%d_%H%M%S") of the run
          db_files,   \* versioned database file of each second
          latest,     \* inseguridad_alimentaria_latest.db
          etl,        \* progress and results of run_full_etl / main
          sm          \* the SessionManager of the analyst application

\* What the orchestrator and the loader own, apart from the timestamp.
pipeline_vars == <<files, env, clock, db_files, latest, etl>>

vars == <<pc, run, df_regional, df_departamental, df_municipal,
          df_regional_clean, df_departamental_clean, df_municipal_clean,
          curated, df_geografia, df_indicadores,
          datos_nacionales, medicion_records, df_medicion, processed, prev,
          timestamp, pipeline_vars, sm>>

(***************************************************************************)
(* Bounds and input domains                                                *)
(***************************************************************************)
\* Total number of source rows over the three tables.
MaxRows == 2

Regiones == {"Andina", "Caribe"}
Departamentos == {"Antioquia", "Bolivar"}
Municipios == {"Albania"}
Indicadores == {"IA"}
TiposDato == {"Porcentaje"}
Medidas == {"Prevalencia", "Severidad"}
Years == {2022}
\* A missing cell (NaN) of a value column.
NaN == "NaN"
DatoValores == {"0.15"}
NacionalValores == {"0.10", "0.11"}

\* None in an integer column (id_padre); ids start at 1.
None == 0

RegionalRows ==
    [region : Regiones, dato_region : DatoValores \cup {NaN},
     dato_nacional : NacionalValores \cup {NaN}, tipo_dato : TiposDato,
     anio : Years, indicador : Indicadores]

DepartamentalRows ==
    [departamento : Departamentos, anio : Years, indicador : Indicadores,
     dato_departamento : DatoValores \cup {NaN},
     dato_nacional : NacionalValores \cup {NaN}, tipo_dato : TiposDato,
     tipo_de_medida : Medidas]

MunicipalRows ==
    [municipio : Municipios, departamento : Departamentos, anio : Years,
     indicador : Indicadores, dato_municipio : DatoValores \cup {NaN},
     dato_nacional : NacionalValores \cup {NaN}, tipo_dato : TiposDato,
     tipo_de_medida : Medidas]

SeqsUpTo(S, n) == UNION {[1..k -> S] : k \in 0..n}

(***************************************************************************)
(* pandas / Python helpers                                                 *)
(***************************************************************************)
\* The rows of df whose index is in S, in row order.
KeepIdx(df, S) ==
    LET F[i \in 0..Len(df)] ==
            IF i = 0 THEN <<>>
            ELSE IF i \in S THEN Append(F[i - 1], df[i]) ELSE F[i - 1]
    IN F[Len(df)]

dropna_none(df, col) == df

\* DataFrame.dropna(subset=[col]).
dropna(df, col) == SelectSeq(df, LAMBDA r : r[col] # NaN)

\* Index of the rows kept by drop_duplicates(keep='first') for a key column.
FirstOccurrence(keys) ==
    {i \in DOMAIN keys : \A j \in 1..(i - 1) : keys[j] # keys[i]}

LastOccurrence(keys) ==
    {i \in DOMAIN keys : \A j \in (i + 1)..Len(keys) : keys[j] # keys[i]}

\* Series.unique() / list de-duplication: first occurrences, in order.
unique(s) == KeepIdx(s, FirstOccurrence(s))

Range(s) == {s[i] : i \in DOMAIN s}

\* Python's str ordering on the names of the model.
NameOrder == <<"Albania", "Andina", "Antioquia", "Bolivar", "Caribe">>

sortedDesc(S) ==
    LET asc == SelectSeq(NameOrder, LAMBDA x : x \in S)
    IN  [i \in DOMAIN asc |-> asc[Len(asc) + 1 - i]]

\* sorted(S) for a collection of names.
sorted(S) == SelectSeq(NameOrder, LAMBDA x : x \in S)

\* The iteration orders a Python set can have (str hashes are salted per
\* process, so the order of a set of tuples holding strings is not fixed).
IterationOrders(S) ==
    {s \in [1..Cardinality(S) -> S] :
        \A i, j \in 1..Cardinality(S) : i # j => s[i] # s[j]}

Column(df, col) == [i \in DOMAIN df |-> df[i][col]]

(***************************************************************************)
(* create_geografia_table                                                  *)
(***************************************************************************)
GeoRecord(id, nivel, nombre, padre) ==
    [id_geografia |-> id, nivel |-> nivel, nombre |-> nombre,
     id_padre |-> padre, codigo_dane |-> None]

\* Position of x in a sequence without repetitions.
IndexOf(s, x) == CHOOSE i \in DOMAIN s : s[i] = x

GeoRegiones(reg) == sorted(Range(unique(Column(reg, "region"))))

GeoDepartamentos(dep, mun) ==
    sorted(Range(unique(Column(dep, "departamento")))
           \cup Range(unique(Column(mun, "departamento"))))

municipios_data_by_name(mun) ==
    KeepIdx([i \in DOMAIN mun |-> <<mun[i].municipio, mun[i].departamento>>],
            FirstOccurrence(Column(mun, "municipio")))

\* df_municipal[['municipio', 'departamento']].drop_duplicates()
municipios_data(mun) ==
    unique([i \in DOMAIN mun |-> <<mun[i].municipio, mun[i].departamento>>])

MunicipalPadreColombia(departamento_ids, departamento) == 1

\* 'id_padre': departamento_ids[departamento]
MunicipalPadre(departamento_ids, departamento) == departamento_ids[departamento]

create_geografia_table(reg, dep, mun) ==
    LET regiones == GeoRegiones(reg)
        departamentos == GeoDepartamentos(dep, mun)
        municipios == municipios_data(mun)
        nR == Len(regiones)
        nD == Len(departamentos)
        departamento_ids ==
            [d \in Range(departamentos) |-> 1 + nR + IndexOf(departamentos, d)]
    IN  <<GeoRecord(1, "Nacional", "Colombia", None)>>
        \o [i \in 1..nR |-> GeoRecord(1 + i, "Regional", regiones[i], 1)]
        \o [i \in 1..nD |->
               GeoRecord(1 + nR + i, "Departamental", departamentos[i], 1)]
        \o [i \in 1..Len(municipios) |->
               GeoRecord(1 + nR + nD + i, "Municipal", municipios[i][1],
                         MunicipalPadre(departamento_ids, municipios[i][2]))]

(***************************************************************************)
(* create_indicadores_table                                                *)
(***************************************************************************)
IndRecord(nombre, tipo, medida) ==
    [nombre_indicador |-> nombre, tipo_dato |-> tipo, tipo_de_medida |-> medida]

\* Regional rows: 'tipo_de_medida': 'Prevalencia'  (asumido para regional)
RegionalIndicador(row) == IndRecord(row.indicador, row.tipo_dato, "Prevalencia")

SourceIndicador(row) == IndRecord(row.indicador, row.tipo_dato, row.tipo_de_medida)

indicadores_no_dedup(indicadores_data) == indicadores_data

\* for ind in indicadores_data: if ind not in indicadores_unicos: append
indicadores_unicos(indicadores_data) == unique(indicadores_data)

indicadores_data_of(reg, dep, mun) ==
    LET regD == KeepIdx(reg, FirstOccurrence(
                    [i \in DOMAIN reg |-> <<reg[i].indicador, reg[i].tipo_dato>>]))
        depD == KeepIdx(dep, FirstOccurrence(
                    [i \in DOMAIN dep |-> SourceIndicador(dep[i])]))
        munD == KeepIdx(mun, FirstOccurrence(
                    [i \in DOMAIN mun |-> SourceIndicador(mun[i])]))
    IN  [i \in DOMAIN regD |-> RegionalIndicador(regD[i])]
        \o [i \in DOMAIN depD |-> SourceIndicador(depD[i])]
        \o [i \in DOMAIN munD |-> SourceIndicador(munD[i])]

create_indicadores_table(reg, dep, mun) ==
    LET unicos == indicadores_unicos(indicadores_data_of(reg, dep, mun))
    IN  [i \in DOMAIN unicos |->
            [id_indicador |-> i,
             nombre_indicador |-> unicos[i].nombre_indicador,
             tipo_dato |-> unicos[i].tipo_dato,
             tipo_de_medida |-> unicos[i].tipo_de_medida]]

(***************************************************************************)
(* create_datos_medicion_table                                             *)
(***************************************************************************)
\* A dict filled by iterating the rows: a later row with the same key
\* overwrites the earlier one.
DictFrom(keys, values) ==
    [k \in Range(keys) |->
        values[CHOOSE i \in DOMAIN keys :
                  keys[i] = k /\ \A j \in DOMAIN keys : keys[j] = k => j <= i]]

geografia_map(geo) ==
    DictFrom([i \in DOMAIN geo |-> <<geo[i].nivel, geo[i].nombre>>],
             Column(geo, "id_geografia"))

indicadores_map(ind) ==
    DictFrom([i \in DOMAIN ind |->
                 <<ind[i].nombre_indicador, ind[i].tipo_dato, ind[i].tipo_de_medida>>],
             Column(ind, "id_indicador"))

RegionalFactNacional(row) ==
    [geo |-> <<"Nacional", "Colombia">>,
     ind |-> <<row.indicador, row.tipo_dato, "Prevalencia">>,
     anio |-> row.anio, valor |-> row.dato_region]

\* The lookup keys and value of the native fact of one row.
RegionalFact(row) ==
    [geo |-> <<"Regional", row.region>>,
     ind |-> <<row.indicador, row.tipo_dato, "Prevalencia">>,
     anio |-> row.anio, valor |-> row.dato_region]

DepartamentalFact(row) ==
    [geo |-> <<"Departamental", row.departamento>>,
     ind |-> <<row.indicador, row.tipo_dato, row.tipo_de_medida>>,
     anio |-> row.anio, valor |-> row.dato_departamento]

MunicipalFact(row) ==
    [geo |-> <<"Municipal", row.municipio>>,
     ind |-> <<row.indicador, row.tipo_dato, row.tipo_de_medida>>,
     anio |-> row.anio, valor |-> row.dato_municipio]

NativeFacts(reg, dep, mun) ==
    LET r == dropna(reg, "dato_region")
        d == dropna(dep, "dato_departamento")
        m == dropna(mun, "dato_municipio")
    IN  [i \in DOMAIN r |-> RegionalFact(r[i])]
        \o [i \in DOMAIN d |-> DepartamentalFact(d[i])]
        \o [i \in DOMAIN m |-> MunicipalFact(m[i])]

\* The tuples added to the set datos_nacionales:
\* (indicador, tipo_medida, tipo_dato, año, dato_nacional).
RegionalNacional(row) ==
    <<row.indicador, "Prevalencia", row.tipo_dato, row.anio, row.dato_nacional>>

SourceNacional(row) ==
    <<row.indicador, row.tipo_de_medida, row.tipo_dato, row.anio, row.dato_nacional>>

NacionalCandidatesAll(reg, dep, mun) ==
    [i \in DOMAIN reg |-> RegionalNacional(reg[i])]
    \o [i \in DOMAIN dep |-> SourceNacional(dep[i])]
    \o [i \in DOMAIN mun |-> SourceNacional(mun[i])]

NacionalCandidates(reg, dep, mun) ==
    LET r == dropna(reg, "dato_nacional")
        d == dropna(dep, "dato_nacional")
        m == dropna(mun, "dato_nacional")
    IN  [i \in DOMAIN r |-> RegionalNacional(r[i])]
        \o [i \in DOMAIN d |-> SourceNacional(d[i])]
        \o [i \in DOMAIN m |-> SourceNacional(m[i])]

NacionalFactSwapped(t) ==
    [geo |-> <<"Nacional", "Colombia">>, ind |-> <<t[1], t[2], t[3]>>,
     anio |-> t[4], valor |-> t[5]]

\* id_indicador = indicadores_map[(indicador, tipo_dato, tipo_medida)]
NacionalFact(t) ==
    [geo |-> <<"Nacional", "Colombia">>, ind |-> <<t[1], t[3], t[2]>>,
     anio |-> t[4], valor |-> t[5]]

\* Every key looked up is in its map (no KeyError).
LookupsResolve(facts, gmap, imap) ==
    \A i \in DOMAIN facts :
        facts[i].geo \in DOMAIN gmap /\ facts[i].ind \in DOMAIN imap

\* medicion_records: ids follow id_counter, one per appended record.
MedicionRecords(facts, gmap, imap) ==
    [i \in DOMAIN facts |->
        [id_medicion |-> i,
         id_geografia |-> gmap[facts[i].geo],
         id_indicador |-> imap[facts[i].ind],
         anio |-> facts[i].anio,
         valor |-> facts[i].valor]]

NaturalKey(f) == <<f.id_geografia, f.id_indicador, f.anio>>

drop_duplicates_renumbered(records) ==
    LET kept == KeepIdx(records,
                    FirstOccurrence([i \in DOMAIN records |-> NaturalKey(records[i])]))
    IN  [i \in DOMAIN kept |-> [kept[i] EXCEPT !.id_medicion = i]]

drop_duplicates_none(records) == records

drop_duplicates_with_valor(records) ==
    KeepIdx(records,
            FirstOccurrence([i \in DOMAIN records |->
                                <<NaturalKey(records[i]), records[i].valor>>]))

drop_duplicates_last(records) ==
    KeepIdx(records,
            LastOccurrence([i \in DOMAIN records |-> NaturalKey(records[i])]))

\* df_medicion.drop_duplicates(subset=[id_geografia, id_indicador, año],
\*                             keep='first')
drop_duplicates(records) ==
    KeepIdx(records,
            FirstOccurrence([i \in DOMAIN records |-> NaturalKey(records[i])]))

(***************************************************************************)
(* transform_data as a state machine                                       *)
(***************************************************************************)
NoTables == [geografia |-> <<>>, indicadores |-> <<>>, medicion |-> <<>>]

Levels == {"Regional", "Departamental", "Municipal"}

\* Seconds of the wall clock; 0 stands for "no timestamp taken yet".
Seconds == {1, 2}

\* A database path that does not exist, and the file sqlite3.connect creates.
NoDb == [exists |-> FALSE, geografia |-> <<>>, indicadores |-> <<>>,
         datos_medicion |-> <<>>]
EmptyDb == [NoDb EXCEPT !.exists = TRUE]

\* run_full_etl before its first stage.
EtlStart ==
    [reads |-> <<>>, stages |-> <<>>, failed |-> "", load |-> "pending",
     ops |-> <<>>, counts |-> <<>>, quality |-> "pending", report |-> <<>>,
     result |-> "running", exit_code |-> -1]

\* SessionManager(): no session, no image; nothing returned yet.
NoSessionManager ==
    [sessions |-> <<>>, session_images |-> <<>>, issued |-> {},
     ret |-> [op |-> "", sid |-> "", found |-> FALSE]]

\* transform.py run on its own: no input directory, no loader, empty
\* database directory.
PipelineIdle ==
    /\ files = [l \in Levels |-> [present |-> FALSE, columns |-> <<>>,
                                   rows |-> <<>>]]
    /\ env = [entry |-> "transform", skip_quality |-> FALSE, fault |-> "none",
              earlier |-> FALSE]
    /\ clock = 1
    /\ timestamp = 0
    /\ db_files = [t \in Seconds |-> NoDb]
    /\ latest = NoDb
    /\ etl = EtlStart
    /\ sm = NoSessionManager

(***************************************************************************)
(* The SQLite loader (load.py)                                             *)
(***************************************************************************)
\* create_database_schema: sqlite3.connect creates the file when it is
\* missing, CREATE TABLE IF NOT EXISTS keeps the tables of an existing one.
create_database_schema(db) == IF db.exists THEN db ELSE EmptyDb

DeleteParents(db) == [db EXCEPT !.geografia = <<>>, !.indicadores = <<>>]

\* The three DELETE statements at the start of the load.
DeleteAll(db) ==
    [db EXCEPT !.datos_medicion = <<>>, !.indicadores = <<>>, !.geografia = <<>>]

\* A table accepts rows whose INTEGER PRIMARY KEY column has no repeated value.
PrimaryKeyUnique(rows, pk) ==
    \A i, j \in DOMAIN rows : rows[i][pk] = rows[j][pk] => i = j

\* UNIQUE(id_geografia, id_indicador, año) and valor REAL NOT NULL.
MedicionConstraints(rows) ==
    /\ \A i, j \in DOMAIN rows : NaturalKey(rows[i]) = NaturalKey(rows[j]) => i = j
    /\ \A i \in DOMAIN rows : rows[i].valor # NaN

\* DataFrame.to_sql(name, conn, if_exists='append', index=False): the rows
\* are appended in one transaction of their own; it raises, and the table
\* keeps what it had, when sqlite3 reports an error (raises) or a
\* constraint fails.
to_sql(table, df, pk, raises) ==
    LET rows == table \o df
        ok == /\ ~raises
              /\ PrimaryKeyUnique(rows, pk)
              /\ pk = "id_medicion" => MedicionConstraints(rows)
    IN  [ok |-> ok, rows |-> IF ok THEN rows ELSE table]

\* Lines 137-153 of load_data_to_database on an opened database: the
\* DELETEs run in the implicit transaction of the connection; every to_sql
\* commits that transaction when its insert succeeds and rolls it back when
\* it fails, so conn.rollback() in the except branch finds nothing left to
\* undo after an earlier insert went through.  ops lists the statements
\* in the order the connection sees them: the COMMIT or ROLLBACK of each
\* to_sql, then conn.commit() of line 153 or conn.rollback() of line 183.
load_tables(db, geo, ind, med, fault) ==
    LET cleared == DeleteAll(db)
        g == to_sql(cleared.geografia, geo, "id_geografia", fault = "geografia")
        afterG == [cleared EXCEPT !.geografia = g.rows]
        i == to_sql(afterG.indicadores, ind, "id_indicador", fault = "indicadores")
        afterI == [afterG EXCEPT !.indicadores = i.rows]
        m == to_sql(afterI.datos_medicion, med, "id_medicion",
                    fault = "datos_medicion")
        afterM == [afterI EXCEPT !.datos_medicion = m.rows]
        deletes == <<"DELETE datos_medicion", "DELETE indicadores",
                     "DELETE geografia">>
        insG == deletes \o <<"INSERT geografia">>
        insI == insG \o <<"COMMIT", "INSERT indicadores">>
        insM == insI \o <<"COMMIT", "INSERT datos_medicion">>
    IN  IF ~g.ok
        THEN [success |-> FALSE, db |-> db, ops |-> insG \o <<"ROLLBACK", "ROLLBACK">>]
        ELSE IF ~i.ok
        THEN [success |-> FALSE, db |-> afterG,
              ops |-> insI \o <<"ROLLBACK", "ROLLBACK">>]
        ELSE IF ~m.ok
        THEN [success |-> FALSE, db |-> afterI,
              ops |-> insM \o <<"ROLLBACK", "ROLLBACK">>]
        ELSE [success |-> TRUE, db |-> afterM, ops |-> insM \o <<"COMMIT", "COMMIT">>]

\* SELECT COUNT(*) of the three tables.
table_counts(db) ==
    <<Len(db.geografia), Len(db.indicadores), Len(db.datos_medicion)>>

\* create_latest_database_link: unlink the old latest file, then copy2 the
\* versioned file over it.  An OSError is caught and only printed: the old
\* file stays when unlink raised, no file is left when copy2 raised.
create_latest_database_link(old, db, fault) ==
    IF fault = "copy" THEN {old, NoDb} ELSE {db}

quality_verdict_nulls_fatal(orphan_geo, orphan_ind, nulls, duplicates) ==
    IF orphan_geo > 0 THEN "failed"
    ELSE IF orphan_ind > 0 THEN "failed"
    ELSE IF nulls > 0 THEN "failed"
    ELSE IF duplicates > 0 THEN "failed"
    ELSE "passed"

\* The early returns of run_data_quality_checks: orphan geography ids, then
\* orphan indicator ids, then repeated natural keys make it return False;
\* the null count is only printed.
quality_verdict(orphan_geo, orphan_ind, nulls, duplicates) ==
    IF orphan_geo > 0 THEN "failed"
    ELSE IF orphan_ind > 0 THEN "failed"
    ELSE IF duplicates > 0 THEN "failed"
    ELSE "passed"

\* The COUNT queries of run_data_quality_checks.
quality_counts(db) ==
    LET geo_ids == {db.geografia[g].id_geografia : g \in DOMAIN db.geografia}
        ind_ids == {db.indicadores[i].id_indicador : i \in DOMAIN db.indicadores}
        facts == db.datos_medicion
    IN  [orphan_geografia |->
             Cardinality({k \in DOMAIN facts : facts[k].id_geografia \notin geo_ids}),
         orphan_indicadores |->
             Cardinality({k \in DOMAIN facts : facts[k].id_indicador \notin ind_ids}),
         null_values |->
             Cardinality({k \in DOMAIN facts : facts[k].valor = NaN}),
         duplicates |->
             Cardinality({NaturalKey(facts[x]) :
                             x \in {k \in DOMAIN facts :
                                       \E y \in DOMAIN facts :
                                           /\ y # k
                                           /\ NaturalKey(facts[y])
                                                 = NaturalKey(facts[k])}})]

\* run_data_quality_checks on a database file: the four COUNT queries and
\* the verdict.  A path without the tables makes the first query raise,
\* which the function reports as False.
run_data_quality_checks(db) ==
    LET c == quality_counts(db)
    IN  IF ~db.exists THEN "failed"
        ELSE quality_verdict(c.orphan_geografia, c.orphan_indicadores,
                             c.null_values, c.duplicates)

\* The checks whose result run_data_quality_checks prints, in order: a
\* return False ends the function, so the checks after it print nothing.
quality_report(db) ==
    LET c == quality_counts(db)
    IN  IF ~db.exists THEN <<>>
        ELSE IF c.orphan_geografia > 0 THEN <<"orphan_geografia">>
        ELSE IF c.orphan_indicadores > 0
             THEN <<"orphan_geografia", "orphan_indicadores">>
        ELSE IF c.duplicates > 0
             THEN <<"orphan_geografia", "orphan_indicadores", "null_values",
                    "duplicates">>
        ELSE <<"orphan_geografia", "orphan_indicadores", "null_values",
               "duplicates", "summary">>

\* sqlite3.connect(db_path) followed by SELECT statements only: an existing
\* file keeps its rows; a missing path becomes a file without rows.
sqlite3_connect_truncate(db) == EmptyDb

sqlite3_connect(db) == IF db.exists THEN db ELSE EmptyDb

Init ==
    /\ \E a \in 0..MaxRows :
         \E b \in 0..(MaxRows - a) :
           \E c \in 0..(MaxRows - a - b) :
             /\ df_regional \in [1..a -> RegionalRows]
             /\ df_departamental \in [1..b -> DepartamentalRows]
             /\ df_municipal \in [1..c -> MunicipalRows]
    /\ pc = "start"
    /\ run = 1
    /\ df_regional_clean = <<>>
    /\ df_departamental_clean = <<>>
    /\ df_municipal_clean = <<>>
    /\ curated = <<>>
    /\ df_geografia = <<>>
    /\ df_indicadores = <<>>
    /\ datos_nacionales = {}
    /\ medicion_records = <<>>
    /\ df_medicion = <<>>
    /\ processed = <<>>
    /\ prev = NoTables
    /\ PipelineIdle

\* PASO 1: dropna on each level's value column, then save_curated_data.
Clean ==
    /\ pc = "start"
    /\ df_regional_clean' = dropna(df_regional, "dato_region")
    /\ df_departamental_clean' = dropna(df_departamental, "dato_departamento")
    /\ df_municipal_clean' = dropna(df_municipal, "dato_municipio")
    /\ curated' = <<df_regional_clean', df_departamental_clean', df_municipal_clean'>>
    /\ timestamp' = clock
    /\ pc' = "curated"
    /\ UNCHANGED <<run, df_regional, df_departamental, df_municipal,
                   df_geografia, df_indicadores, datos_nacionales,
                   medicion_records, df_medicion, processed, prev>>
    /\ UNCHANGED <<pipeline_vars, sm>>

CreateGeografia ==
    /\ pc = "curated"
    /\ df_geografia' = create_geografia_table(df_regional_clean,
                           df_departamental_clean, df_municipal_clean)
    /\ pc' = "geografia"
    /\ UNCHANGED <<run, df_regional, df_departamental, df_municipal,
                   df_regional_clean, df_departamental_clean, df_municipal_clean,
                   curated, df_indicadores, datos_nacionales,
                   medicion_records, df_medicion, processed, prev>>
    /\ UNCHANGED <<timestamp, pipeline_vars, sm>>

CreateIndicadores ==
    /\ pc = "geografia"
    /\ df_indicadores' = create_indicadores_table(df_regional_clean,
                             df_departamental_clean, df_municipal_clean)
    /\ pc' = "indicadores"
    /\ UNCHANGED <<run, df_regional, df_departamental, df_municipal,
                   df_regional_clean, df_departamental_clean, df_municipal_clean,
                   curated, df_geografia, datos_nacionales,
                   medicion_records, df_medicion, processed, prev>>
    /\ UNCHANGED <<timestamp, pipeline_vars, sm>>

\* create_datos_medicion_table: native facts, then the lifted national facts
\* in the iteration order of the set datos_nacionales, then drop_duplicates.
\* A lookup miss raises KeyError and the function returns nothing.
CreateDatosMedicion ==
    /\ pc = "indicadores"
    /\ LET gmap == geografia_map(df_geografia)
           imap == indicadores_map(df_indicadores)
           native == NativeFacts(df_regional_clean, df_departamental_clean,
                                 df_municipal_clean)
           nacionales == Range(NacionalCandidates(df_regional_clean,
                                   df_departamental_clean, df_municipal_clean))
       IN  \E order \in IterationOrders(nacionales) :
             LET facts == native \o [i \in DOMAIN order |-> NacionalFact(order[i])]
             IN  IF LookupsResolve(facts, gmap, imap)
                 THEN /\ datos_nacionales' = nacionales
                      /\ medicion_records' = MedicionRecords(facts, gmap, imap)
                      /\ df_medicion' = drop_duplicates(medicion_records')
                      /\ pc' = "medicion"
                 ELSE /\ pc' = "KeyError"
                      /\ UNCHANGED <<datos_nacionales, medicion_records, df_medicion>>
    /\ UNCHANGED <<run, df_regional, df_departamental, df_municipal,
                   df_regional_clean, df_departamental_clean, df_municipal_clean,
                   curated, df_geografia, df_indicadores, processed, prev>>
    /\ UNCHANGED <<timestamp, pipeline_vars, sm>>

\* save_processed_data, then transform_data returns the three tables.
SaveProcessed ==
    /\ pc = "medicion"
    /\ processed' = <<df_geografia, df_indicadores, df_medicion>>
    /\ pc' = "done"
    /\ UNCHANGED <<run, df_regional, df_departamental, df_municipal,
                   df_regional_clean, df_departamental_clean, df_municipal_clean,
                   curated, df_geografia, df_indicadores, datos_nacionales,
                   medicion_records, df_medicion, prev>>
    /\ UNCHANGED <<timestamp, pipeline_vars, sm>>

\* A second run of transform_data (a new process) on the same input.
TransformAgain ==
    /\ pc = "done"
    /\ run = 1
    /\ run' = 2
    /\ prev' = [geografia |-> df_geografia, indicadores |-> df_indicadores,
                medicion |-> df_medicion]
    /\ pc' = "start"
    /\ df_regional_clean' = <<>>
    /\ df_departamental_clean' = <<>>
    /\ df_municipal_clean' = <<>>
    /\ df_geografia' = <<>>
    /\ df_indicadores' = <<>>
    /\ datos_nacionales' = {}
    /\ medicion_records' = <<>>
    /\ df_medicion' = <<>>
    /\ UNCHANGED <<df_regional, df_departamental, df_municipal, curated, processed>>
    /\ UNCHANGED <<timestamp, pipeline_vars, sm>>

Next ==
    \/ Clean
    \/ CreateGeografia
    \/ CreateIndicadores
    \/ CreateDatosMedicion
    \/ SaveProcessed

Spec == Init /\ [][Next]_vars

NextTwice ==
    \/ Next
    \/ TransformAgain

SpecTwice == Init /\ [][NextTwice]_vars

(***************************************************************************)
(* The full pipeline: main() and run_full_etl (main.py) around extract.py, *)
(* transform_data and load.py                                              *)
(***************************************************************************)
\* expected_cols of validate_dataframes.
expected_cols ==
    [Regional |-> <<"region", "dato_region", "dato_nacional", "tipo_dato",
                    "anio", "indicador">>,
     Departamental |-> <<"departamento", "anio", "indicador",
                         "dato_departamento", "dato_nacional", "tipo_dato",
                         "tipo_de_medida">>,
     Municipal |-> <<"municipio", "departamento", "anio", "indicador",
                     "dato_municipio", "dato_departamento", "dato_nacional",
                     "tipo_dato", "tipo_de_medida">>]

\* The same columns with the first two exchanged.
Reordered(cols) == <<cols[2], cols[1]>> \o SubSeq(cols, 3, Len(cols))

\* One source row per level, with and without its primary value.
SampleRow(l, dato) ==
    CASE l = "Regional" ->
           [region |-> "Caribe", dato_region |-> dato, dato_nacional |-> "0.10",
            tipo_dato |-> "Porcentaje", anio |-> 2022, indicador |-> "IA"]
      [] l = "Departamental" ->
           [departamento |-> "Antioquia", anio |-> 2022, indicador |-> "IA",
            dato_departamento |-> dato, dato_nacional |-> "0.10",
            tipo_dato |-> "Porcentaje", tipo_de_medida |-> "Prevalencia"]
      [] l = "Municipal" ->
           [municipio |-> "Albania", departamento |-> "Antioquia",
            anio |-> 2022, indicador |-> "IA", dato_municipio |-> dato,
            dato_nacional |-> "0.10", tipo_dato |-> "Porcentaje",
            tipo_de_medida |-> "Severidad"]

\* What the input directory can hold for a level: a file with a valued row,
\* with a row whose primary value is null, with a header only, with its
\* columns in another order, or no file.
FileOptions(l) ==
    {[present |-> TRUE, columns |-> expected_cols[l],
      rows |-> <<SampleRow(l, "0.15")>>],
     [present |-> TRUE, columns |-> expected_cols[l],
      rows |-> <<SampleRow(l, NaN)>>],
     [present |-> TRUE, columns |-> expected_cols[l], rows |-> <<>>],
     [present |-> TRUE, columns |-> Reordered(expected_cols[l]),
      rows |-> <<SampleRow(l, "0.15")>>],
     [present |-> FALSE, columns |-> <<>>, rows |-> <<>>]}

\* validate_input_files and the existence loop of extract_excel_files.
AllPresent(fs) == \A l \in Levels : fs[l].present

validate_columns_only(fs) ==
    \A l \in Levels : fs[l].columns = expected_cols[l]

\* validate_dataframes: column lists equal to the expected lists, in order,
\* and no empty DataFrame.
validate_dataframes(fs) ==
    /\ \A l \in Levels : fs[l].columns = expected_cols[l]
    /\ \A l \in Levels : fs[l].rows # <<>>

\* What can go wrong during a run: nothing, an OSError while transform_data
\* writes its snapshots, an sqlite3 error in one of the three inserts, an
\* OSError while the latest file is replaced, an sqlite3 error while the
\* quality checks read the database.
Faults == {"none", "transform", "geografia", "indicadores", "datos_medicion",
           "copy", "quality"}

\* The versioned file an earlier run, started in second 1 on a regional
\* table of one row, loaded.
EarlierRegional ==
    <<[region |-> "Andina", dato_region |-> "0.15", dato_nacional |-> "0.11",
       tipo_dato |-> "Porcentaje", anio |-> 2022, indicador |-> "IA"]>>

EarlierDb ==
    LET geo == create_geografia_table(EarlierRegional, <<>>, <<>>)
        ind == create_indicadores_table(EarlierRegional, <<>>, <<>>)
        nac == NacionalCandidates(EarlierRegional, <<>>, <<>>)
        facts == NativeFacts(EarlierRegional, <<>>, <<>>)
                     \o [i \in DOMAIN nac |-> NacionalFact(nac[i])]
    IN  [exists |-> TRUE, geografia |-> geo, indicadores |-> ind,
         datos_medicion |->
             drop_duplicates(MedicionRecords(facts, geografia_map(geo),
                                             indicadores_map(ind)))]

\* The database directory a run finds: empty, or holding the versioned file
\* of the earlier run and its copy as the latest file.
DbFilesBefore(e) ==
    [t \in Seconds |-> IF e.earlier /\ t = 1 THEN EarlierDb ELSE NoDb]

LatestBefore(e) == IF e.earlier THEN EarlierDb ELSE NoDb

InitETL ==
    /\ files \in {f \in [Levels -> UNION {FileOptions(l) : l \in Levels}] :
                     \A l \in Levels : f[l] \in FileOptions(l)}
    /\ env \in [entry : {"main", "run_full_etl"}, skip_quality : BOOLEAN,
                fault : Faults, earlier : BOOLEAN]
    /\ (AllPresent(files) /\ validate_dataframes(files))
          \/ (env.fault = "none" /\ ~env.skip_quality)
    /\ clock \in Seconds
    /\ db_files = DbFilesBefore(env)
    /\ latest = LatestBefore(env)
    /\ timestamp = 0
    /\ etl = EtlStart
    /\ sm = NoSessionManager
    /\ pc = env.entry
    /\ run = 1
    /\ df_regional = <<>>
    /\ df_departamental = <<>>
    /\ df_municipal = <<>>
    /\ df_regional_clean = <<>>
    /\ df_departamental_clean = <<>>
    /\ df_municipal_clean = <<>>
    /\ curated = <<>>
    /\ df_geografia = <<>>
    /\ df_indicadores = <<>>
    /\ datos_nacionales = {}
    /\ medicion_records = <<>>
    /\ df_medicion = <<>>
    /\ processed = <<>>
    /\ prev = NoTables

transform_vars ==
    <<run, df_regional, df_departamental, df_municipal,
      df_regional_clean, df_departamental_clean, df_municipal_clean,
      curated, df_geografia, df_indicadores, datos_nacionales,
      medicion_records, df_medicion, processed, prev, timestamp>>

Started(stage) == [etl EXCEPT !.stages = Append(@, stage)]

\* main(): validate_input_files; a missing file ends the process with 1.
ValidateInputFiles ==
    /\ pc = "main"
    /\ IF AllPresent(files)
       THEN /\ pc' = "run_full_etl"
            /\ etl' = etl
       ELSE /\ pc' = "exited"
            /\ etl' = [etl EXCEPT !.exit_code = 1]
    /\ UNCHANGED <<sm, transform_vars, files, env, clock, db_files, latest>>

\* extract_excel_files: FileNotFoundError before any read when a file is
\* missing, otherwise the three files are read in order.
Extract ==
    /\ pc = "run_full_etl"
    /\ IF AllPresent(files)
       THEN /\ df_regional' = files["Regional"].rows
            /\ df_departamental' = files["Departamental"].rows
            /\ df_municipal' = files["Municipal"].rows
            /\ etl' = [Started("extract") EXCEPT
                          !.reads = <<"Regional", "Departamental", "Municipal">>]
            /\ pc' = "extracted"
       ELSE /\ etl' = [Started("extract") EXCEPT !.failed = "extract"]
            /\ pc' = "exception"
            /\ UNCHANGED <<df_regional, df_departamental, df_municipal>>
    /\ UNCHANGED <<run, df_regional_clean, df_departamental_clean,
                   df_municipal_clean, curated, df_geografia, df_indicadores,
                   datos_nacionales, medicion_records, df_medicion, processed,
                   prev, timestamp, sm, files, env, clock, db_files, latest>>

\* validate_dataframes raises ValueError on a wrong column list or an empty
\* table.
Validate ==
    /\ pc = "extracted"
    /\ IF validate_dataframes(files)
       THEN /\ etl' = Started("validate")
            /\ pc' = "validated"
       ELSE /\ etl' = [Started("validate") EXCEPT !.failed = "validate"]
            /\ pc' = "exception"
    /\ UNCHANGED <<sm, transform_vars, files, env, clock, db_files, latest>>

\* PASO 2 of run_full_etl: the call of transform_data.
StartTransform ==
    /\ pc = "validated"
    /\ etl' = Started("transform")
    /\ pc' = "start"
    /\ UNCHANGED <<sm, transform_vars, files, env, clock, db_files, latest>>

\* transform_data raises while it writes the curated snapshot.
TransformRaises ==
    /\ pc = "start"
    /\ env.fault = "transform"
    /\ df_regional_clean' = dropna(df_regional, "dato_region")
    /\ df_departamental_clean' = dropna(df_departamental, "dato_departamento")
    /\ df_municipal_clean' = dropna(df_municipal, "dato_municipio")
    /\ timestamp' = clock
    /\ etl' = [etl EXCEPT !.failed = "transform"]
    /\ pc' = "exception"
    /\ UNCHANGED <<run, df_regional, df_departamental, df_municipal, curated,
                   df_geografia, df_indicadores, datos_nacionales,
                   medicion_records, df_medicion, processed, prev,
                   sm, files, env, clock, db_files, latest>>

\* except Exception in run_full_etl: print the error and return False.
ExceptHandler ==
    /\ pc \in {"exception", "KeyError"}
    /\ env.entry # "transform"
    /\ etl' = [etl EXCEPT !.result = "failed",
                          !.failed = IF pc = "KeyError" THEN "transform" ELSE @]
    /\ pc' = "returned"
    /\ UNCHANGED <<sm, transform_vars, files, env, clock, db_files, latest>>

publish_latest_always(old, loaded, fault) ==
    create_latest_database_link(old, loaded.db, fault)

\* create_latest_database_link is called at line 176 only, after the
\* commit; a raising insert jumps over it to the except branch.
publish_latest(old, loaded, fault) ==
    IF loaded.success THEN create_latest_database_link(old, loaded.db, fault)
    ELSE {old}

\* PASO 3 of run_full_etl: load_data_to_database on the tables returned by
\* transform_data, then "if not success: return False".
LoadDataToDatabase ==
    /\ pc = "done"
    /\ env.entry # "transform"
    /\ LET opened == create_database_schema(db_files[timestamp])
           loaded == load_tables(opened, df_geografia, df_indicadores,
                                 df_medicion, env.fault)
       IN  /\ db_files' = [db_files EXCEPT ![timestamp] = loaded.db]
           /\ latest' \in publish_latest(latest, loaded, env.fault)
           /\ IF loaded.success
              THEN /\ etl' = [Started("load") EXCEPT
                                 !.load = "ok",
                                 !.ops = loaded.ops \o <<"COPY latest">>,
                                 !.counts = table_counts(loaded.db)]
                   /\ pc' = "loaded"
              ELSE /\ etl' = [Started("load") EXCEPT
                                 !.load = "failed", !.failed = "load",
                                 !.ops = loaded.ops, !.result = "failed"]
                   /\ pc' = "returned"
    /\ UNCHANGED <<sm, transform_vars, files, env, clock>>

quality_always(e) == TRUE

\* "if not skip_quality_checks" of run_full_etl.
quality_enabled(e) == ~e.skip_quality

\* PASO 4: run_data_quality_checks on the versioned file; its result is
\* printed and not returned.
RunQualityChecks ==
    /\ pc = "loaded"
    /\ quality_enabled(env)
    /\ etl' = [Started("quality") EXCEPT
                  !.quality = IF env.fault = "quality" THEN "failed"
                              ELSE run_data_quality_checks(db_files[timestamp]),
                  !.report = IF env.fault = "quality" THEN <<>>
                             ELSE quality_report(db_files[timestamp])]
    /\ db_files' = [db_files EXCEPT ![timestamp] = sqlite3_connect(@)]
    /\ pc' = "checked"
    /\ UNCHANGED <<sm, transform_vars, files, env, clock, latest>>

\* RESUMEN FINAL and return True.
Finish ==
    /\ \/ pc = "checked"
       \/ pc = "loaded" /\ ~quality_enabled(env)
    /\ etl' = [etl EXCEPT !.result = "ok"]
    /\ pc' = "returned"
    /\ UNCHANGED <<sm, transform_vars, files, env, clock, db_files, latest>>

exit_status_quality(e) == IF e.result = "ok" /\ e.quality # "failed" THEN 0 ELSE 1

\* sys.exit(0) if run_full_etl returned True, sys.exit(1) otherwise.
exit_status(e) == IF e.result = "ok" THEN 0 ELSE 1

Exit ==
    /\ pc = "returned"
    /\ env.entry = "main"
    /\ etl' = [etl EXCEPT !.exit_code = exit_status(etl)]
    /\ pc' = "exited"
    /\ UNCHANGED <<sm, transform_vars, files, env, clock, db_files, latest>>

NextETL ==
    \/ ValidateInputFiles
    \/ Extract
    \/ Validate
    \/ StartTransform
    \/ Clean
    \/ CreateGeografia
    \/ CreateIndicadores
    \/ CreateDatosMedicion
    \/ SaveProcessed
    \/ TransformRaises
    \/ ExceptHandler
    \/ LoadDataToDatabase
    \/ RunQualityChecks
    \/ Finish
    \/ Exit

SpecETL == InitETL /\ [][NextETL]_vars

(***************************************************************************)
(* run_data_quality_checks called on an arbitrary database file            *)
(***************************************************************************)
\* Longest fact table of a checked database.
MaxFacts == 2

GeografiaTables ==
    {<<>>,
     <<GeoRecord(1, "Nacional", "Colombia", None)>>,
     <<GeoRecord(1, "Nacional", "Colombia", None),
       GeoRecord(2, "Regional", "Caribe", 1)>>}

IndicadoresTables ==
    {<<>>,
     <<[id_indicador |-> 1, nombre_indicador |-> "IA",
        tipo_dato |-> "Porcentaje", tipo_de_medida |-> "Prevalencia"]>>}

\* Fact rows of any content; id_medicion is the row number.
FactRows ==
    [id_geografia : 1..3, id_indicador : 1..2, anio : Years,
     valor : DatoValores \cup {NaN}]

FactTables ==
    {[i \in DOMAIN t |->
         [id_medicion |-> i, id_geografia |-> t[i].id_geografia,
          id_indicador |-> t[i].id_indicador, anio |-> t[i].anio,
          valor |-> t[i].valor]] :
        t \in UNION {[1..n -> FactRows] : n \in 0..MaxFacts}}

InitQuality ==
    /\ \E g \in GeografiaTables, i \in IndicadoresTables, m \in FactTables :
          db_files = [t \in Seconds |->
                         IF t = 1
                         THEN [exists |-> TRUE, geografia |-> g,
                               indicadores |-> i, datos_medicion |-> m]
                         ELSE NoDb]
    /\ latest \in {NoDb, db_files[1]}
    /\ files = [l \in Levels |-> [present |-> FALSE, columns |-> <<>>,
                                   rows |-> <<>>]]
    /\ env = [entry |-> "quality", skip_quality |-> FALSE, fault |-> "none",
              earlier |-> FALSE]
    /\ clock = 1
    /\ timestamp = 1
    /\ etl = EtlStart
    /\ sm = NoSessionManager
    /\ pc = "quality_call"
    /\ run = 1
    /\ df_regional = <<>>
    /\ df_departamental = <<>>
    /\ df_municipal = <<>>
    /\ df_regional_clean = <<>>
    /\ df_departamental_clean = <<>>
    /\ df_municipal_clean = <<>>
    /\ curated = <<>>
    /\ df_geografia = <<>>
    /\ df_indicadores = <<>>
    /\ datos_nacionales = {}
    /\ medicion_records = <<>>
    /\ df_medicion = <<>>
    /\ processed = <<>>
    /\ prev = NoTables

\* run_data_quality_checks(db_path) returns its verdict.
CheckDatabase ==
    /\ pc = "quality_call"
    /\ etl' = [etl EXCEPT !.quality = run_data_quality_checks(db_files[timestamp]),
                          !.report = quality_report(db_files[timestamp])]
    /\ db_files' = [db_files EXCEPT ![timestamp] = sqlite3_connect(@)]
    /\ pc' = "quality_returned"
    /\ UNCHANGED <<sm, transform_vars, files, env, clock, latest>>

NextQuality == CheckDatabase

SpecQuality == InitQuality /\ [][NextQuality]_vars

(***************************************************************************)
(* analista-ai/core/session_manager.py: the SessionManager                 *)
(***************************************************************************)

\* Bounds of the session model: the last clock tick, the messages kept per
\* conversation and the images kept per session.
MaxTime == 2
MaxMessages == 1
MaxImages == 1

\* session_timeout, in clock ticks (24 hours in the program).
session_timeout == 1

\* Ids uuid4 can issue, and every id a caller can pass: the issued ones and
\* "default", which get_current_session_id returns when no session is set.
SessionIds == {"s1", "s2"}
CallerIds == SessionIds \cup {"default"}

\* dict without the keys in S.
Without(d, S) == [k \in DOMAIN d \ S |-> d[k]]

\* dict with d[k] = v, whether or not k was a key.
Put(d, k, v) == [j \in DOMAIN d \cup {k} |-> IF j = k THEN v ELSE d[j]]

\* What an operation leaves as its return value: a conversation or message
\* (found) or None.
Returned(op, sid, found) == [op |-> op, sid |-> sid, found |-> found]
NoReturn == Returned("", "", FALSE)

\* delete_session: removes the conversation and the images of the id,
\* each if present.
delete_session(m, sid) ==
    [m EXCEPT !.sessions = Without(@, {sid}),
              !.session_images = Without(@, {sid})]

\* The test of _cleanup_expired_sessions on one conversation.
expired(conversation, now) ==
    now - conversation.last_activity > session_timeout

\* Deletes the sessions in S one after the other.
RECURSIVE delete_sessions(_, _)
delete_sessions(m, S) ==
    IF S = {} THEN m
    ELSE LET sid == CHOOSE s \in S : TRUE
         IN  delete_sessions(delete_session(m, sid), S \ {sid})

\* _cleanup_expired_sessions: collects the expired ids of self.sessions,
\* then deletes each.
cleanup_expired_sessions(m, now) ==
    delete_sessions(m, {s \in DOMAIN m.sessions : expired(m.sessions[s], now)})

\* Conversation.add_message: appends the message, last_activity = now.
Conversation_add_message(conversation, now) ==
    [conversation EXCEPT !.messages = @ + 1, !.last_activity = now]

\* Mutant of get_session: the lookup is done without the cleanup.
get_session_no_cleanup(m, sid, now) ==
    [m EXCEPT !.ret = Returned("get_session", sid, sid \in DOMAIN m.sessions)]

\* get_session: cleanup, then self.sessions.get(session_id).
get_session(m, sid, now) ==
    LET c == cleanup_expired_sessions(m, now)
    IN  [c EXCEPT !.ret = Returned("get_session", sid, sid \in DOMAIN c.sessions)]

\* add_message: get_session; None if there is no conversation, otherwise
\* the message is added to it.
add_message(m, sid, now) ==
    LET g == get_session(m, sid, now)
    IN  IF ~g.ret.found
        THEN [g EXCEPT !.ret = Returned("add_message", sid, FALSE)]
        ELSE [g EXCEPT !.sessions[sid] = Conversation_add_message(@, now),
                       !.ret = Returned("add_message", sid, TRUE)]

\* create_session: a fresh id, an empty conversation active now and an
\* empty image dict.
create_session(m, sid, now) ==
    [m EXCEPT !.sessions = Put(@, sid, [messages |-> 0, last_activity |-> now]),
              !.session_images = Put(@, sid, 0),
              !.issued = @ \cup {sid},
              !.ret = NoReturn]

\* Images held for an id (0 when the id has no entry).
images_count(m, sid) ==
    IF sid \in DOMAIN m.session_images THEN m.session_images[sid] ELSE 0

\* store_image: creates the entry of the id if it is missing, then adds
\* the image.
store_image(m, sid) ==
    [m EXCEPT !.session_images = Put(@, sid, images_count(m, sid) + 1),
              !.ret = NoReturn]

\* clear_session_images: empties the entry of the id, if present.
clear_session_images(m, sid) ==
    [m EXCEPT !.session_images =
                  IF sid \in DOMAIN @ THEN Put(@, sid, 0) ELSE @,
              !.ret = NoReturn]

\* The session manager alone: constructed, clock at 0, no pipeline.
InitSession ==
    /\ files = [l \in Levels |-> [present |-> FALSE, columns |-> <<>>,
                                   rows |-> <<>>]]
    /\ env = [entry |-> "session", skip_quality |-> FALSE, fault |-> "none",
              earlier |-> FALSE]
    /\ clock = 0
    /\ timestamp = 0
    /\ db_files = [t \in Seconds |-> NoDb]
    /\ latest = NoDb
    /\ etl = EtlStart
    /\ sm = NoSessionManager
    /\ pc = env.entry
    /\ run = 1
    /\ df_regional = <<>>
    /\ df_departamental = <<>>
    /\ df_municipal = <<>>
    /\ df_regional_clean = <<>>
    /\ df_departamental_clean = <<>>
    /\ df_municipal_clean = <<>>
    /\ curated = <<>>
    /\ df_geografia = <<>>
    /\ df_indicadores = <<>>
    /\ datos_nacionales = {}
    /\ medicion_records = <<>>
    /\ df_medicion = <<>>
    /\ processed = <<>>
    /\ prev = NoTables

\* What the session manager never touches.
session_frame ==
    UNCHANGED <<transform_vars, files, env, db_files, latest, etl, pc>>

CreateSession ==
    /\ pc = "session"
    /\ \E sid \in SessionIds \ sm.issued :
           sm' = create_session(sm, sid, clock)
    /\ UNCHANGED clock
    /\ session_frame

GetSession ==
    /\ pc = "session"
    /\ \E sid \in CallerIds : sm' = get_session(sm, sid, clock)
    /\ UNCHANGED clock
    /\ session_frame

AddMessage ==
    /\ pc = "session"
    /\ \E sid \in CallerIds :
           /\ sid \in DOMAIN sm.sessions => sm.sessions[sid].messages < MaxMessages
           /\ sm' = add_message(sm, sid, clock)
    /\ UNCHANGED clock
    /\ session_frame

StoreImage ==
    /\ pc = "session"
    /\ \E sid \in CallerIds :
           /\ images_count(sm, sid) < MaxImages
           /\ sm' = store_image(sm, sid)
    /\ UNCHANGED clock
    /\ session_frame

ClearSessionImages ==
    /\ pc = "session"
    /\ \E sid \in CallerIds : sm' = clear_session_images(sm, sid)
    /\ UNCHANGED clock
    /\ session_frame

DeleteSession ==
    /\ pc = "session"
    /\ \E sid \in CallerIds :
           sm' = [delete_session(sm, sid) EXCEPT !.ret = NoReturn]
    /\ UNCHANGED clock
    /\ session_frame

\* Time passes between two calls; the value returned by the last call is
\* gone by then.
Tick ==
    /\ pc = "session"
    /\ clock < MaxTime
    /\ clock' = clock + 1
    /\ sm' = [sm EXCEPT !.ret = NoReturn]
    /\ session_frame

NextSession ==
    \/ CreateSession
    \/ GetSession
    \/ AddMessage
    \/ StoreImage
    \/ ClearSessionImages
    \/ DeleteSession
    \/ Tick

SpecSession == InitSession /\ [][NextSession]_vars

(***************************************************************************)
(* Properties                                                              *)
(***************************************************************************)
GeografiaBuilt == pc \in {"geografia", "indicadores", "medicion", "done"}
IndicadoresBuilt == pc \in {"indicadores", "medicion", "done"}
MedicionBuilt == pc \in {"medicion", "done"}

GeoRows(nivel) == {i \in DOMAIN df_geografia : df_geografia[i].nivel = nivel}
GeoIds == {df_geografia[i].id_geografia : i \in DOMAIN df_geografia}
IndIds == {df_indicadores[i].id_indicador : i \in DOMAIN df_indicadores}
GeoWithId(id) == {i \in DOMAIN df_geografia : df_geografia[i].id_geografia = id}

\* Indices of the emitted facts that share the natural key of record i.
SameKey(i) ==
    {j \in DOMAIN medicion_records :
        NaturalKey(medicion_records[j]) = NaturalKey(medicion_records[i])}

Min(S) == CHOOSE m \in S : \A x \in S : m <= x

nRegional == Len(df_regional_clean)
nDepartamental == Len(df_departamental_clean)
nMunicipal == Len(df_municipal_clean)
nNative == nRegional + nDepartamental + nMunicipal

\* C1: no two rows of the fact table returned by create_datos_medicion_table
\* share the same (id_geografia, id_indicador, año) triple.
C1_NaturalKeyUnique ==
    MedicionBuilt =>
        \A i, j \in DOMAIN df_medicion :
            i # j => NaturalKey(df_medicion[i]) # NaturalKey(df_medicion[j])

\* Two emitted facts had the same natural key with different values.
C1_Witness ==
    /\ pc = "done"
    /\ \E i, j \in DOMAIN medicion_records :
          /\ i < j
          /\ j \in SameKey(i)
          /\ medicion_records[i].valor # medicion_records[j].valor

\* C2: deduplication is first-occurrence-wins.  Facts are emitted for the
\* cleaned regional rows, then the departmental rows, then the municipal
\* rows, then the lifted national facts; for every natural key the surviving
\* fact is the first one emitted, and the later ones are dropped and counted.
C2_FirstOccurrenceWins ==
    MedicionBuilt =>
        /\ Len(medicion_records) = nNative + Cardinality(datos_nacionales)
        /\ \A i \in 1..nRegional :
              medicion_records[i].valor = df_regional_clean[i].dato_region
        /\ \A i \in 1..nDepartamental :
              medicion_records[nRegional + i].valor
                  = df_departamental_clean[i].dato_departamento
        /\ \A i \in 1..nMunicipal :
              medicion_records[nRegional + nDepartamental + i].valor
                  = df_municipal_clean[i].dato_municipio
        /\ \A i \in DOMAIN medicion_records :
              (medicion_records[i].id_geografia = 1) <=> (i > nNative)
        /\ \A i \in DOMAIN medicion_records :
              LET first == medicion_records[Min(SameKey(i))]
                  kept == {k \in DOMAIN df_medicion :
                              NaturalKey(df_medicion[k]) = NaturalKey(first)}
              IN  /\ Cardinality(kept) = 1
                  /\ \A k \in kept : df_medicion[k] = first
        /\ \A k \in DOMAIN df_medicion :
              \E i \in DOMAIN medicion_records : df_medicion[k] = medicion_records[i]
        /\ Len(medicion_records) - Len(df_medicion)
              = Cardinality({i \in DOMAIN medicion_records : i # Min(SameKey(i))})

\* A later fact with another value was dropped in favour of the first one.
C2_Witness ==
    /\ pc = "done"
    /\ Len(df_medicion) < Len(medicion_records)
    /\ \E i, j \in DOMAIN medicion_records :
          /\ i < j
          /\ j \in SameKey(i)
          /\ medicion_records[i].valor # medicion_records[j].valor
          /\ \E k \in DOMAIN df_medicion : df_medicion[k] = medicion_records[i]

\* C3: running transform_data twice on identical input yields identical
\* geography, indicator and fact tables (same rows, ids, values, row order).
C3_Deterministic ==
    (run = 2 /\ pc = "done") =>
        /\ df_geografia = prev.geografia
        /\ df_indicadores = prev.indicadores
        /\ df_medicion = prev.medicion

\* The national candidates in source row order (regional, departmental,
\* municipal), as (indicator triple, year, value).
CandidateRows ==
    LET c == NacionalCandidates(df_regional_clean, df_departamental_clean,
                                df_municipal_clean)
    IN  [i \in DOMAIN c |->
            [ind |-> <<c[i][1], c[i][3], c[i][2]>>, anio |-> c[i][4], valor |-> c[i][5]]]

IndicadorOf(id) ==
    LET i == CHOOSE k \in DOMAIN df_indicadores : df_indicadores[k].id_indicador = id
    IN  <<df_indicadores[i].nombre_indicador, df_indicadores[i].tipo_dato,
          df_indicadores[i].tipo_de_medida>>

\* C4: when two source rows embed different national values for the same
\* indicator triple and year, both are candidates, exactly one Nacional fact
\* for that (indicator, year) survives, and it is the candidate that comes
\* first in source row order.
C4_FirstCandidateSurvives ==
    pc = "done" =>
        \A i, j \in DOMAIN CandidateRows :
            ( /\ i < j
              /\ CandidateRows[i].ind = CandidateRows[j].ind
              /\ CandidateRows[i].anio = CandidateRows[j].anio
              /\ CandidateRows[i].valor # CandidateRows[j].valor
              /\ \A h \in 1..(i - 1) :
                    ~ (CandidateRows[h].ind = CandidateRows[i].ind
                       /\ CandidateRows[h].anio = CandidateRows[i].anio) )
            =>
            LET nac == {k \in DOMAIN df_medicion :
                           /\ df_medicion[k].id_geografia = 1
                           /\ IndicadorOf(df_medicion[k].id_indicador)
                                  = CandidateRows[i].ind
                           /\ df_medicion[k].anio = CandidateRows[i].anio}
            IN  /\ Cardinality(nac) = 1
                /\ \A k \in nac : df_medicion[k].valor = CandidateRows[i].valor

\* C5: every fact's id_geografia and id_indicador is the id of a row of the
\* geography and indicator tables of the same run, and no lookup misses.
C5_ReferentialClosure ==
    /\ pc # "KeyError"
    /\ MedicionBuilt =>
          \A k \in DOMAIN df_medicion :
              /\ df_medicion[k].id_geografia \in GeoIds
              /\ df_medicion[k].id_indicador \in IndIds

\* Facts of a native level and lifted national facts were both produced.
C5_Witness ==
    /\ pc = "done"
    /\ \E k \in DOMAIN df_medicion : df_medicion[k].id_geografia = 1
    /\ \E k \in DOMAIN df_medicion : df_medicion[k].id_geografia # 1
    /\ Len(df_indicadores) >= 2

\* C6: exactly one Nacional row, with id 1 and a null parent; every Regional
\* and Departamental row has parent 1; every Municipal row's parent is the
\* id of a Departamental row.
C6_Hierarchy ==
    GeografiaBuilt =>
        /\ Cardinality(GeoRows("Nacional")) = 1
        /\ \A i \in GeoRows("Nacional") :
              df_geografia[i].id_geografia = 1 /\ df_geografia[i].id_padre = None
        /\ \A i \in GeoRows("Regional") \cup GeoRows("Departamental") :
              df_geografia[i].id_padre = 1
        /\ \A i \in GeoRows("Municipal") :
              \E d \in GeoRows("Departamental") :
                  df_geografia[i].id_padre = df_geografia[d].id_geografia
        /\ \A i \in DOMAIN df_geografia :
              df_geografia[i].nivel # "Nacional" =>
                  /\ df_geografia[i].id_padre # None
                  /\ df_geografia[i].id_padre \in GeoIds

\* The geography has rows of all four levels.
C6_Witness ==
    /\ GeografiaBuilt
    /\ GeoRows("Regional") # {}
    /\ GeoRows("Municipal") # {}
    /\ GeoRows("Departamental") # {}

\* C7: no two geography rows have the same (nivel, nombre) pair, so the
\* (level, name) -> id lookup map has one entry per geography row, also when
\* a municipality name occurs under two departments.
C7_NamesUniqueWithinLevel ==
    GeografiaBuilt =>
        /\ \A i, j \in DOMAIN df_geografia :
              i # j => <<df_geografia[i].nivel, df_geografia[i].nombre>>
                          # <<df_geografia[j].nivel, df_geografia[j].nombre>>
        /\ Cardinality(DOMAIN geografia_map(df_geografia)) = Len(df_geografia)

\* The geography row a fact points to.
GeoOfFact(f) ==
    df_geografia[CHOOSE i \in DOMAIN df_geografia :
                    df_geografia[i].id_geografia = f.id_geografia]

DepartamentalId(nombre) ==
    {df_geografia[d].id_geografia :
        d \in {x \in GeoRows("Departamental") : df_geografia[x].nombre = nombre}}

\* C8: every cleaned source row yields one native fact that carries the
\* row's own value and references the geography row of the row's own entity;
\* for a municipal row, the Municipal row whose parent is its department.
C8_NativeFactOfOwnEntity ==
    MedicionBuilt =>
        /\ Len(medicion_records) >= nNative
        /\ \A i \in 1..nRegional :
              LET f == medicion_records[i]
              IN  /\ f.valor = df_regional_clean[i].dato_region
                  /\ GeoOfFact(f).nivel = "Regional"
                  /\ GeoOfFact(f).nombre = df_regional_clean[i].region
        /\ \A i \in 1..nDepartamental :
              LET f == medicion_records[nRegional + i]
              IN  /\ f.valor = df_departamental_clean[i].dato_departamento
                  /\ GeoOfFact(f).nivel = "Departamental"
                  /\ GeoOfFact(f).nombre = df_departamental_clean[i].departamento
        /\ \A i \in 1..nMunicipal :
              LET f == medicion_records[nRegional + nDepartamental + i]
              IN  /\ f.valor = df_municipal_clean[i].dato_municipio
                  /\ GeoOfFact(f).nivel = "Municipal"
                  /\ GeoOfFact(f).nombre = df_municipal_clean[i].municipio
                  /\ GeoOfFact(f).id_padre
                         \in DepartamentalId(df_municipal_clean[i].departamento)

MunicipalPairs ==
    {<<df_municipal_clean[i].municipio, df_municipal_clean[i].departamento>> :
        i \in DOMAIN df_municipal_clean}

\* C9: the Departamental rows are exactly the union of the department names
\* of the cleaned departmental and municipal tables, and every distinct
\* (municipio, departamento) pair has exactly one Municipal row whose parent
\* is the Departamental row named departamento.
C9_DepartmentUnion ==
    GeografiaBuilt =>
        LET names == Range(Column(df_departamental_clean, "departamento"))
                     \cup Range(Column(df_municipal_clean, "departamento"))
        IN  /\ {df_geografia[i].nombre : i \in GeoRows("Departamental")} = names
            /\ Cardinality(GeoRows("Departamental")) = Cardinality(names)
            /\ Cardinality(GeoRows("Municipal")) = Cardinality(MunicipalPairs)
            /\ \A p \in MunicipalPairs :
                  /\ Cardinality(DepartamentalId(p[2])) = 1
                  /\ Cardinality({i \in GeoRows("Municipal") :
                                    /\ df_geografia[i].nombre = p[1]
                                    /\ df_geografia[i].id_padre \in DepartamentalId(p[2])})
                        = 1

\* A municipal row names a department that the departmental table lacks.
C9_Witness ==
    /\ GeografiaBuilt
    /\ \E i \in DOMAIN df_municipal_clean :
          df_municipal_clean[i].departamento
              \notin Range(Column(df_departamental_clean, "departamento"))
    /\ Cardinality(MunicipalPairs) = 2

\* The (name, type, methodology) triples of the cleaned rows in the order
\* regional, departmental, municipal; regional rows use 'Prevalencia'.
SeenTriples ==
    [i \in DOMAIN df_regional_clean |->
        <<df_regional_clean[i].indicador, df_regional_clean[i].tipo_dato, "Prevalencia">>]
    \o [i \in DOMAIN df_departamental_clean |->
        <<df_departamental_clean[i].indicador, df_departamental_clean[i].tipo_dato,
          df_departamental_clean[i].tipo_de_medida>>]
    \o [i \in DOMAIN df_municipal_clean |->
        <<df_municipal_clean[i].indicador, df_municipal_clean[i].tipo_dato,
          df_municipal_clean[i].tipo_de_medida>>]

TripleOfRow(i) ==
    <<df_indicadores[i].nombre_indicador, df_indicadores[i].tipo_dato,
      df_indicadores[i].tipo_de_medida>>

FirstSeen(t) == Min({i \in DOMAIN SeenTriples : SeenTriples[i] = t})

\* C10: the indicator table has exactly one row per distinct (name, type,
\* methodology) triple seen in the three cleaned tables, with ids 1..K
\* assigned in first-seen order over regional, departmental, municipal rows.
C10_IndicatorsFirstSeen ==
    IndicadoresBuilt =>
        /\ {TripleOfRow(i) : i \in DOMAIN df_indicadores} = Range(SeenTriples)
        /\ Len(df_indicadores) = Cardinality(Range(SeenTriples))
        /\ \A i \in DOMAIN df_indicadores : df_indicadores[i].id_indicador = i
        /\ \A i, j \in DOMAIN df_indicadores :
              i < j => FirstSeen(TripleOfRow(i)) < FirstSeen(TripleOfRow(j))

\* The triple of a regional row occurs again at another geography level and
\* the two rows share one indicator id.
C10_Witness ==
    /\ IndicadoresBuilt
    /\ nRegional = 1
    /\ nDepartamental + nMunicipal = 1
    /\ SeenTriples[2] = SeenTriples[1]
    /\ Len(df_indicadores) = 1

\* The rows of the three tables in one shape: level, entity, indicator
\* triple, year, primary value and embedded national value.
ShapeRegional(df) ==
    [i \in DOMAIN df |->
        [nivel |-> "Regional", nombre |-> df[i].region, depto |-> "",
         ind |-> <<df[i].indicador, df[i].tipo_dato, "Prevalencia">>,
         anio |-> df[i].anio, dato |-> df[i].dato_region,
         nacional |-> df[i].dato_nacional]]

ShapeDepartamental(df) ==
    [i \in DOMAIN df |->
        [nivel |-> "Departamental", nombre |-> df[i].departamento, depto |-> "",
         ind |-> <<df[i].indicador, df[i].tipo_dato, df[i].tipo_de_medida>>,
         anio |-> df[i].anio, dato |-> df[i].dato_departamento,
         nacional |-> df[i].dato_nacional]]

ShapeMunicipal(df) ==
    [i \in DOMAIN df |->
        [nivel |-> "Municipal", nombre |-> df[i].municipio,
         depto |-> df[i].departamento,
         ind |-> <<df[i].indicador, df[i].tipo_dato, df[i].tipo_de_medida>>,
         anio |-> df[i].anio, dato |-> df[i].dato_municipio,
         nacional |-> df[i].dato_nacional]]

CleanShaped ==
    ShapeRegional(df_regional_clean) \o ShapeDepartamental(df_departamental_clean)
        \o ShapeMunicipal(df_municipal_clean)

RawShaped ==
    ShapeRegional(df_regional) \o ShapeDepartamental(df_departamental)
        \o ShapeMunicipal(df_municipal)

\* Two cleaned rows of one entity with the same indicator triple and year
\* that embed the same national value.
RepeatedRows(i, j) ==
    /\ i < j
    /\ CleanShaped[i].nivel = CleanShaped[j].nivel
    /\ CleanShaped[i].nombre = CleanShaped[j].nombre
    /\ CleanShaped[i].depto = CleanShaped[j].depto
    /\ CleanShaped[i].ind = CleanShaped[j].ind
    /\ CleanShaped[i].anio = CleanShaped[j].anio
    /\ CleanShaped[i].nacional = CleanShaped[j].nacional
    /\ CleanShaped[i].nacional # NaN

NullRows(raw) == {i \in DOMAIN raw : raw[i].dato = NaN}
ValuedRows(raw) == {i \in DOMAIN raw : raw[i].dato # NaN}

\* C12: a source row whose primary value column is null yields no fact: the
\* cleaned tables are the raw tables without those rows (filtered count =
\* raw rows - cleaned rows), one native fact is emitted per remaining row,
\* and every lifted national fact, geography row and indicator comes from a
\* row whose primary value is not null.
C12_NullRowsContributeNothing ==
    MedicionBuilt =>
        LET raw == RawShaped
            valued == ValuedRows(raw)
            inds == {raw[i].ind : i \in valued}
            lifted == {<<raw[i].ind, raw[i].anio, raw[i].nacional>> : i \in valued}
            entities == {<<raw[i].nivel, raw[i].nombre>> : i \in valued}
                          \cup {<<"Departamental", raw[i].depto>> : i \in valued}
        IN  /\ CleanShaped = KeepIdx(raw, valued)
            /\ Len(raw) - Len(CleanShaped) = Cardinality(NullRows(raw))
            /\ Cardinality({k \in DOMAIN medicion_records :
                               medicion_records[k].id_geografia # 1})
                  = Cardinality(valued)
            /\ \A k \in DOMAIN medicion_records :
                  medicion_records[k].id_geografia = 1 =>
                      <<IndicadorOf(medicion_records[k].id_indicador),
                        medicion_records[k].anio, medicion_records[k].valor>>
                          \in lifted
            /\ \A g \in DOMAIN df_geografia :
                  df_geografia[g].nivel # "Nacional" =>
                      <<df_geografia[g].nivel, df_geografia[g].nombre>> \in entities
            /\ \A k \in DOMAIN df_indicadores : TripleOfRow(k) \in inds

\* A row with a null primary value but an embedded national value was
\* filtered out while another row produced facts.
C12_Witness ==
    /\ pc = "done"
    /\ \E i \in NullRows(RawShaped) : RawShaped[i].nacional # NaN
    /\ Len(df_medicion) >= 1

(***************************************************************************)
(* Properties of the loader and the orchestrator                           *)
(***************************************************************************)
TransformTables == <<Len(df_geografia), Len(df_indicadores), Len(df_medicion)>>

\* The versioned file of this run as the run found it, once opened.
OpenedBefore == create_database_schema(DbFilesBefore(env)[timestamp])

\* C13: when one of the three bulk inserts fails the load reports failure
\* and the versioned file keeps nothing the load wrote or cleared: a new
\* file is left schema-only, a reused file keeps the rows it had.
C13_FailedLoadRolledBack ==
    etl.load = "failed" =>
        /\ etl.result = "failed"
        /\ db_files[timestamp] = OpenedBefore

\* C14: every run of the loader creates a new timestamped database file and
\* leaves the already existing ones as they were, also when it starts in
\* the second of an earlier run.
C14_NewFileEveryRun ==
    etl.load # "pending" =>
        /\ \A t \in Seconds :
              DbFilesBefore(env)[t].exists => db_files[t] = DbFilesBefore(env)[t]
        /\ Cardinality({t \in Seconds : db_files[t].exists})
              = Cardinality({t \in Seconds : DbFilesBefore(env)[t].exists}) + 1

\* C15: whenever the load returns success the latest file exists and is a
\* full copy of the versioned file the load just committed.
C15_LatestIsCopy ==
    etl.load = "ok" =>
        /\ latest.exists
        /\ latest = db_files[timestamp]

\* C16: after a successful load the row counts read back from the three
\* tables equal the lengths of the tables transform_data returned, also
\* when the file of that timestamp already held rows of an earlier load.
C16_CountsRoundTrip ==
    etl.load = "ok" =>
        /\ etl.counts = TransformTables
        /\ table_counts(db_files[timestamp]) = TransformTables

\* A load into the file an earlier run had filled succeeded.
C16_Witness ==
    /\ etl.load = "ok"
    /\ env.earlier
    /\ timestamp = 1
    /\ Len(df_medicion) >= 2
    /\ df_medicion # EarlierDb.datos_medicion

\* A file is absent, a column list differs from the expected one in names
\* or order, or a table has no rows.
InputInvalid ==
    \E l \in Levels :
        \/ ~files[l].present
        \/ files[l].columns # expected_cols[l]
        \/ Len(files[l].rows) = 0

\* C17: with a missing file, a wrong column list or an empty table the run
\* fails before transform and load begin: nothing is read when a file is
\* missing, and no curated snapshot, processed snapshot, versioned database
\* or latest file is created or modified.
C17_InvalidInputFailsFast ==
    InputInvalid =>
        /\ pc \in {"main", "run_full_etl", "extracted", "exception",
                   "returned", "exited"}
        /\ \A k \in DOMAIN etl.stages : etl.stages[k] \in {"extract", "validate"}
        /\ (\E l \in Levels : ~files[l].present) => etl.reads = <<>>
        /\ timestamp = 0
        /\ curated = <<>>
        /\ processed = <<>>
        /\ db_files = DbFilesBefore(env)
        /\ latest = LatestBefore(env)
        /\ etl.result # "ok"
        /\ pc = "returned" => etl.result = "failed"
        /\ pc = "exited" => etl.exit_code = 1

\* A run on a directory with an empty table ended with exit code 1 next to
\* the artifacts of an earlier run.
C17_Witness ==
    /\ pc = "exited"
    /\ etl.exit_code = 1
    /\ etl.failed = "validate"
    /\ \E l \in Levels : files[l].columns = expected_cols[l] /\ files[l].rows = <<>>
    /\ \A l \in Levels : files[l].columns = expected_cols[l]
    /\ env.earlier

StageOrder == <<"extract", "validate", "transform", "load", "quality">>

\* C18: the stages run in the order extract, validate, transform, load,
\* quality checks, each after the previous one succeeded and none twice;
\* the stage that failed is the last one that ran; the quality checks ran
\* if and only if the load succeeded and the skip flag is not set.
C18_StagesInOrder ==
    /\ Len(etl.stages) <= Len(StageOrder)
    /\ etl.stages = SubSeq(StageOrder, 1, Len(etl.stages))
    /\ etl.failed # "" =>
          /\ etl.stages # <<>>
          /\ etl.stages[Len(etl.stages)] = etl.failed
    /\ Len(etl.stages) >= 2 =>
          etl.reads = <<"Regional", "Departamental", "Municipal">>
    /\ Len(etl.stages) >= 3 => ~InputInvalid
    /\ Len(etl.stages) >= 4 =>
          /\ curated = <<df_regional_clean, df_departamental_clean,
                         df_municipal_clean>>
          /\ processed = <<df_geografia, df_indicadores, df_medicion>>
    /\ Len(etl.stages) >= 5 => etl.load = "ok" /\ ~env.skip_quality
    /\ ( /\ pc \in {"returned", "exited"}
         /\ etl.load = "ok"
         /\ ~env.skip_quality ) => Len(etl.stages) = 5
    /\ etl.result = "ok" => etl.failed = "" /\ Len(etl.stages) >= 4

\* A run with the skip flag returned after a successful load.
C18_Witness ==
    /\ pc = "returned"
    /\ env.skip_quality
    /\ etl.load = "ok"
    /\ etl.stages = SubSeq(StageOrder, 1, 4)

\* Extraction, validation, transformation and load all succeeded.
FourStagesSucceeded ==
    /\ Len(etl.stages) >= 4
    /\ etl.failed = ""
    /\ etl.load = "ok"

\* C19: the process exits with 0 exactly when extraction, validation,
\* transformation and load all succeeded and with 1 otherwise, a missing
\* input file included; a failed quality check leaves the exit code at 0.
C19_ExitCode ==
    pc = "exited" =>
        /\ etl.exit_code \in {0, 1}
        /\ etl.exit_code = 0 <=> FourStagesSucceeded
        /\ (\E l \in Levels : ~files[l].present) => etl.exit_code = 1
        /\ etl.quality = "failed" => etl.exit_code = 0 /\ etl.result = "ok"

\* The quality checks reported failure and the process exited with 0.
C19_Witness ==
    /\ pc = "exited"
    /\ etl.quality = "failed"
    /\ etl.exit_code = 0

CheckedDb == db_files[timestamp]

\* Some fact's geography id or indicator id has no row in its table.
HasOrphan(db) ==
    \E k \in DOMAIN db.datos_medicion :
        \/ \A g \in DOMAIN db.geografia :
              db.geografia[g].id_geografia # db.datos_medicion[k].id_geografia
        \/ \A i \in DOMAIN db.indicadores :
              db.indicadores[i].id_indicador # db.datos_medicion[k].id_indicador

\* Some natural key occurs in two fact rows.
HasDuplicate(db) ==
    \E x, y \in DOMAIN db.datos_medicion :
        /\ x < y
        /\ db.datos_medicion[x].id_geografia = db.datos_medicion[y].id_geografia
        /\ db.datos_medicion[x].id_indicador = db.datos_medicion[y].id_indicador
        /\ db.datos_medicion[x].anio = db.datos_medicion[y].anio

HasNull(db) ==
    \E k \in DOMAIN db.datos_medicion : db.datos_medicion[k].valor = NaN

\* C20: run_data_quality_checks returns false when a fact's geography or
\* indicator id does not resolve or a natural key occurs more than once,
\* and true on a database with no orphan and no duplicate, whether or not
\* fact values are null.
C20_QualityVerdict ==
    pc = "quality_returned" =>
        /\ (HasOrphan(CheckedDb) \/ HasDuplicate(CheckedDb))
              => etl.quality = "failed"
        /\ (~HasOrphan(CheckedDb) /\ ~HasDuplicate(CheckedDb))
              => etl.quality = "passed"

\* A database with a null fact value and nothing else wrong passed.
C20_Witness ==
    /\ pc = "quality_returned"
    /\ HasNull(CheckedDb)
    /\ Len(CheckedDb.datos_medicion) = 2
    /\ etl.quality = "passed"

AllChecks ==
    <<"orphan_geografia", "orphan_indicadores", "null_values", "duplicates",
      "summary">>

\* C21: every call of run_data_quality_checks reports the geography-orphan
\* check, the indicator-orphan check, the null count, the duplicate check
\* and the per-level summary, whatever the other checks found.
C21_AllChecksReported ==
    pc = "quality_returned" => etl.report = AllChecks

\* C22: run_data_quality_checks changes neither the rows of the versioned
\* database nor the latest file, whatever it returns.
C22_QualityChecksReadOnly ==
    [][pc = "quality_call" => (db_files' = db_files /\ latest' = latest)]_vars

\* The checks failed on a database that holds facts and has a latest copy.
C22_Witness ==
    /\ pc = "quality_returned"
    /\ etl.quality = "failed"
    /\ latest.exists
    /\ Len(CheckedDb.datos_medicion) = 2

\* Positions of a statement in the statements of the load.
OpsAt(op) == {k \in DOMAIN etl.ops : etl.ops[k] = op}

Before(a, b) == \A x \in OpsAt(a), y \in OpsAt(b) : x < y

\* Deletes child-before-parent, inserts parent-before-child, all deletes
\* before all inserts.
StatementsInOrder ==
    /\ Before("DELETE datos_medicion", "DELETE indicadores")
    /\ Before("DELETE indicadores", "DELETE geografia")
    /\ Before("DELETE geografia", "INSERT geografia")
    /\ Before("INSERT geografia", "INSERT indicadores")
    /\ Before("INSERT indicadores", "INSERT datos_medicion")
    /\ \A op \in {"DELETE datos_medicion", "DELETE indicadores",
                  "DELETE geografia", "INSERT geografia", "INSERT indicadores",
                  "INSERT datos_medicion"} : Cardinality(OpsAt(op)) = 1

\* C23: within one load the rows are cleared child-before-parent and
\* inserted parent-before-child, all deletes before all inserts, and every
\* commit and the copy to the latest file come after the fact insert.
C23_LoadOrder ==
    etl.load = "ok" =>
        /\ StatementsInOrder
        /\ Before("INSERT datos_medicion", "COMMIT")
        /\ Before("INSERT datos_medicion", "COPY latest")
        /\ OpsAt("COMMIT") # {}
        /\ OpsAt("COPY latest") # {}

\* C25: a run that does not reach a successful load commit (input error,
\* transform error or failing insert) leaves the latest file as it was
\* before the run.
C25_LatestUntouchedOnFailure ==
    etl.load # "ok" => latest = LatestBefore(env)

\* A load failed after writing to its versioned file, next to the latest
\* file of an earlier run.
C25_Witness ==
    /\ etl.load = "failed"
    /\ env.earlier
    /\ latest = EarlierDb
    /\ db_files[timestamp].geografia # <<>>
    /\ db_files[timestamp] # EarlierDb

LevelRank(nivel) ==
    CASE nivel = "Nacional" -> 0
      [] nivel = "Regional" -> 1
      [] nivel = "Departamental" -> 2
      [] nivel = "Municipal" -> 3

NamePos(n) == CHOOSE k \in DOMAIN NameOrder : NameOrder[k] = n

\* C24: geography ids are 1..N without gaps in level order: id 1 is the
\* Nacional row, then the distinct regions in ascending name order, then
\* the distinct departments of the union in ascending name order, then one
\* row per distinct (municipio, departamento) pair.
C24_GeographyIdsInLevelOrder ==
    GeografiaBuilt =>
        LET geo == df_geografia
            names(nivel) == {geo[i].nombre : i \in GeoRows(nivel)}
        IN  /\ \A i \in DOMAIN geo : geo[i].id_geografia = i
            /\ geo[1].nivel = "Nacional" /\ geo[1].nombre = "Colombia"
            /\ Cardinality(GeoRows("Nacional")) = 1
            /\ \A i, j \in DOMAIN geo :
                  i < j =>
                      /\ LevelRank(geo[i].nivel) <= LevelRank(geo[j].nivel)
                      /\ ( /\ geo[i].nivel = geo[j].nivel
                           /\ geo[i].nivel \in {"Regional", "Departamental"} )
                         => NamePos(geo[i].nombre) < NamePos(geo[j].nombre)
            /\ names("Regional") = Range(Column(df_regional_clean, "region"))
            /\ names("Departamental")
                  = Range(Column(df_departamental_clean, "departamento"))
                      \cup Range(Column(df_municipal_clean, "departamento"))
            /\ Cardinality(GeoRows("Municipal"))
                  = Cardinality({<<df_municipal_clean[i].municipio,
                                   df_municipal_clean[i].departamento>> :
                                     i \in DOMAIN df_municipal_clean})

\* Two regions were given out of name order and got ids 2 and 3.
C24_Witness ==
    /\ GeografiaBuilt
    /\ Len(df_regional_clean) = 2
    /\ df_regional_clean[1].region = "Caribe"
    /\ df_regional_clean[2].region = "Andina"
    /\ Len(df_geografia) = 3

\* C26: every fact of the table returned by transform_data has a value:
\* native facts come from rows with a primary value, national facts from
\* rows with a national value, so valor NOT NULL cannot fail in the load.
C26_NoNullFactValue ==
    MedicionBuilt =>
        /\ \A k \in DOMAIN medicion_records : medicion_records[k].valor # NaN
        /\ \A k \in DOMAIN df_medicion : df_medicion[k].valor # NaN

\* A cleaned row without national value produced its native fact only.
C26_Witness ==
    /\ pc = "done"
    /\ Len(df_medicion) = 1
    /\ df_medicion[1].id_geografia # 1
    /\ \E i \in DOMAIN CleanShaped : CleanShaped[i].nacional = NaN

\* Positions of the emitted facts that deduplication keeps.
KeptPositions ==
    {k \in DOMAIN medicion_records : \A j \in 1..(k - 1) :
        NaturalKey(medicion_records[j]) # NaturalKey(medicion_records[k])}

FactIds == {df_medicion[i].id_medicion : i \in DOMAIN df_medicion}

IdsFollowEmission ==
    /\ \A k \in DOMAIN medicion_records : medicion_records[k].id_medicion = k
    /\ \A i, j \in DOMAIN df_medicion :
          i < j => df_medicion[i].id_medicion < df_medicion[j].id_medicion
    /\ FactIds = KeptPositions

\* C27 as stated: fact ids are 1,2,3,... in emission order before
\* deduplication, distinct and increasing in the output, the gaps are the
\* dropped duplicates, and the largest id equals the number of facts emitted.
C27_LargestIdIsEmittedCount ==
    (MedicionBuilt /\ df_medicion # <<>>) =>
        /\ IdsFollowEmission
        /\ df_medicion[Len(df_medicion)].id_medicion = Len(medicion_records)

\* C27 amended: fact ids are 1,2,3,... in emission order before
\* deduplication, distinct and increasing in the output, and the gaps are
\* the dropped duplicates; the largest id equals the number of facts
\* emitted exactly when the last emitted fact is not a dropped duplicate,
\* and is smaller otherwise.
C27_IdsInEmissionOrder ==
    (MedicionBuilt /\ df_medicion # <<>>) =>
        /\ IdsFollowEmission
        /\ df_medicion[Len(df_medicion)].id_medicion <= Len(medicion_records)
        /\ df_medicion[Len(df_medicion)].id_medicion = Len(medicion_records)
              <=> Len(medicion_records) \in KeptPositions

\* The last emitted fact was a duplicate and was dropped after an earlier
\* duplicate had left a gap.
C27_Witness ==
    /\ pc = "done"
    /\ Len(medicion_records) = 4
    /\ FactIds = {1, 3}

\* C28: native facts are never attached to geography id 1 and every lifted
\* national fact is; deduplication drops a fact only for an earlier fact of
\* the same kind, and the Nacional facts of the output are one per distinct
\* (id_indicador, año) among the lifted candidates.
C28_NacionalOnlyLifted ==
    MedicionBuilt =>
        LET n == nNative
            lifted == {k \in DOMAIN medicion_records : k > n}
        IN  /\ \A k \in DOMAIN medicion_records :
                  medicion_records[k].id_geografia = 1 <=> k > n
            /\ \A k \in DOMAIN medicion_records, j \in DOMAIN medicion_records :
                  ( /\ j < k
                    /\ NaturalKey(medicion_records[j])
                          = NaturalKey(medicion_records[k]) )
                  => (j > n <=> k > n)
            /\ Cardinality({i \in DOMAIN df_medicion :
                               df_medicion[i].id_geografia = 1})
                  = Cardinality({<<medicion_records[k].id_indicador,
                                    medicion_records[k].anio>> : k \in lifted})

\* Native facts and two lifted candidates of one indicator and year: one
\* Nacional fact is left.
C28_Witness ==
    /\ pc = "done"
    /\ Len(medicion_records) = 4
    /\ Len(df_medicion) = 3
    /\ Cardinality({i \in DOMAIN df_medicion : df_medicion[i].id_geografia = 1}) = 1
    /\ Cardinality({i \in DOMAIN df_medicion : df_medicion[i].id_geografia # 1}) = 2

\* C29: after any sequence of SessionManager operations, every session id
\* with an entry in session_images also has a conversation in sessions, so
\* that no stored image escapes the expiry cleanup.
C29_ImagesBelongToSessions ==
    pc = "session" => DOMAIN sm.session_images \subseteq DOMAIN sm.sessions

\* Sessions of m whose last activity is further back than the timeout.
TimedOut(m) ==
    {s \in DOMAIN m.sessions : clock - m.sessions[s].last_activity > session_timeout}

\* m holds nothing that was not already in the manager before the call.
NothingStored(m) ==
    /\ DOMAIN m.sessions \subseteq DOMAIN sm.sessions
    /\ \A s \in DOMAIN m.sessions : m.sessions[s] = sm.sessions[s]
    /\ DOMAIN m.session_images \subseteq DOMAIN sm.session_images
    /\ \A s \in DOMAIN m.session_images : m.session_images[s] = sm.session_images[s]

\* C30: get_session never returns a conversation whose last_activity is
\* older than the session timeout: get_session and add_message first remove
\* every expired session together with its images, add_message on an
\* expired or unknown session returns None and stores nothing, and a
\* successful add_message sets last_activity to the time of the message.
C30_GetSessionNeverReturnsExpired ==
    pc = "session" =>
      /\ sm.ret.op \in {"get_session", "add_message"} =>
           /\ TimedOut(sm) = {}
           /\ sm.ret.found <=> sm.ret.sid \in DOMAIN sm.sessions
           /\ (sm.ret.op = "add_message" /\ sm.ret.found) =>
                  sm.sessions[sm.ret.sid].last_activity = clock
      /\ \A sid \in CallerIds :
           LET g == get_session(sm, sid, clock)
               a == add_message(sm, sid, clock)
               live == DOMAIN sm.sessions \ TimedOut(sm)
           IN  /\ \A s \in TimedOut(sm) :
                      /\ s \notin DOMAIN g.sessions \cup DOMAIN g.session_images
                      /\ s \notin DOMAIN a.sessions \cup DOMAIN a.session_images
               /\ g.ret.found <=> sid \in live
               /\ g.ret.found =>
                      /\ g.sessions[sid] = sm.sessions[sid]
                      /\ clock - g.sessions[sid].last_activity <= session_timeout
               /\ sid \notin live => ~a.ret.found /\ NothingStored(a)
               /\ sid \in live =>
                      /\ a.ret.found
                      /\ a.sessions[sid].messages = sm.sessions[sid].messages + 1
                      /\ a.sessions[sid].last_activity = clock

\* A message was accepted at the last tick by one session after the other
\* session, created at the start and silent since, had been removed.
C30_Witness ==
    /\ pc = "session"
    /\ clock = MaxTime
    /\ sm.ret = Returned("add_message", "s2", TRUE)
    /\ sm.sessions["s2"].last_activity = clock
    /\ sm.issued = SessionIds
    /\ "s1" \notin DOMAIN sm.sessions \cup DOMAIN sm.session_images

====
